---- MODULE Spec2Model ----
(***************************************************************************)
(* signals::signal<F, etype> of src/signals.hpp: a vector of callbacks     *)
(* ("slots"), connect() that appends to it and emit() that calls every     *)
(* element, directly (synch) or through std::async (asynch).               *)
(*                                                                         *)
(* One signal object is modelled, used by the threads of Threads.  Calls   *)
(* of connect() are steps of their own and do not overlap one another;     *)
(* a connect() may fall anywhere inside an emit() that is in flight, from  *)
(* another thread or from the body of a handler that emit() is running.    *)
(***************************************************************************)
EXTENDS Integers, Sequences, FiniteSets, TLC

\* ----------------------------------------------------------------- bounds
Handlers == {"A", "B"}          \* the callbacks that can be connected
Payloads == {7, 8}              \* the arguments emit() can be given
Threads  == {"t1", "t2"}        \* the threads that use the signal
MaxConnects == 2                \* connect() calls in one behaviour
MaxEmits == 2                   \* emit() calls in one behaviour, synch signal
MaxAsynchEmits == 1             \* emit() calls in one behaviour, asynch signal

VARIABLES
  etype,      \* template parameter emit_type: "synch" or "asynch"
  funcs,      \* std::vector< std::function<F> > funcs: the elements, in order
  cap,        \* funcs.capacity()
  buf,        \* identity of the storage funcs currently owns
  em,         \* the emit() calls made so far, each with its locals
  defined,    \* FALSE once a step had no behaviour defined by the language
  connected   \* history: the arguments of the connect() calls, in call order

\* The demo program of src/slots_signals.cpp (server::run and its vms).
VARIABLES
  run,        \* server::run(): where it is, its loop iterator v, the broadcast
  boot,       \* futures of run(): per vm, the task that calls v->boot()
  vms,        \* server::vms: per vm, its fields booted and tasks
  bcast,      \* signal_broadcast.emit(): per vm, the task that calls data_in
  srv         \* server::booted and server::mtx

demo == <<run, boot, vms, bcast, srv>>

vars == <<etype, funcs, cap, buf, em, defined, connected, demo>>

\* ------------------------------------------------------- std::vector parts
\* New capacity when push_back finds size() = capacity() (doubling growth).
Grow(c) == IF c = 0 THEN 1 ELSE 2 * c

PushFront(fs, h) == <<h>> \o fs
\* funcs.push_back(fn)
PushBack(fs, h) == Append(fs, h)

\* funcs.begin()
Begin == 1

AtEndOffByOne(fn, fs) == fn = Len(fs) + 2
\* fn == funcs.end(), the negation of the loop condition
AtEnd(fn, fs) == fn = Len(fs) + 1

AdvanceSkip(fn) == fn + 2
\* fn++
Advance(fn) == fn + 1

\* *fn: the element the iterator designates; a read outside the elements
\* finds whatever the storage holds.
DerefSet(fs, fn) == IF fn \in DOMAIN fs THEN {fs[fn]} ELSE Handlers

\* ------------------------------------------------------------ emit() calls
Emits == DOMAIN em
InFlight(e) == em[e].pc \in {"loop", "call", "join"}
Ended(e) == em[e].pc \in {"ret", "thrown"}

\* The threads that call emit(): the demo emits its asynch signal from the
\* one thread of server::run, its synch signals from several threads.
Emitters == IF etype = "asynch" THEN {"t1"} ELSE Threads
\* Some thread is outside emit(), free to call connect() / emit().
FreeThread == Cardinality({e \in Emits : InFlight(e)}) < Cardinality(Threads)
FreeEmitter == Cardinality({e \in Emits : InFlight(e)}) < Cardinality(Emitters)
EmitBound == IF etype = "asynch" THEN MaxAsynchEmits ELSE MaxEmits

\* The iterator of call e designates storage that funcs no longer owns.
Dangling(e) == em[e].fbuf # buf
\* A read of funcs by call e is not ordered with every write to it.
Stale(e) == Dangling(e) \/ em[e].raced

\* The positions of em[e].tasks whose handler has been entered.
Entered(e) == {i \in DOMAIN em[e].tasks : em[e].tasks[i].st \in {"running", "done", "failed"}}

\* How std::async(sig, args...) may launch sig: no policy is given, so it is
\* launch::async | launch::deferred and the implementation selects: a new
\* thread ("ready"), or a deferred call that only get()/wait() would run.
LaunchModes == {"ready", "deferred"}

\* ~vector<future<void>>: the destructor of a future made by std::async on a
\* new thread blocks until that thread has finished; a deferred one is dropped.
JoinNothing(ts) == TRUE
Joined(ts) == \A i \in DOMAIN ts : ts[i].st \in {"done", "failed", "deferred"}

\* args... are passed to the handler by value
PassArgs(p) == p

UsesAsyncNever(et) == FALSE
UsesAsyncAlways(et) == TRUE
\* if(etype==asynch): the loop body hands sig to std::async and goes on;
\* otherwise it calls sig itself and goes on when sig has returned.
UsesAsync(et) == et = "asynch"

PropagatesAlways(et) == TRUE
PropagatesNever(et) == FALSE
\* Whether an exception thrown by a handler unwinds emit(): under synch the
\* handler is called from the loop itself, under asynch from a thread of
\* std::async, which stores the exception in the future's shared state.
Propagates(et) == et = "synch"

\* The record of one call of a handler: the iterator it was made through
\* (position and storage), the callee, the argument and how far it got.
Task(h, st, e) == [h |-> h, st |-> st, it |-> em[e].fn, arg |-> PassArgs(em[e].payload)]

\* ----------------------------------------------------------------- Init
\* ------------------------------------------------- the demo, constructed
NumVms == 2                     \* the vms of the server (10 in the demo)
Broadcasts == 2                 \* signal_broadcast.emit() calls in run()
Vms == 1..NumVms

\* server: booted{0}, mtx unlocked.  vm::vm(int): booted = false, no tasks;
\* entries counts the times boot() was entered on the vm.
DemoInit ==
  /\ run = [pc |-> "loop", v |-> 1, n |-> 1]
  /\ boot = [t \in Vms |-> [pc |-> "none", this |-> 0, reg |-> 0]]
  /\ vms = [i \in Vms |-> [booted |-> FALSE, tasks |-> 0, entries |-> 0]]
  /\ bcast = [i \in Vms |-> "none"]
  /\ srv = [booted |-> 0, mtx |-> 0]

Init ==
  /\ etype \in {"synch", "asynch"}
  /\ funcs = <<>>
  /\ cap = 0
  /\ buf = 0
  /\ em = <<>>
  /\ defined = TRUE
  /\ connected = <<>>
  /\ DemoInit

\* -------------------------------------------------------------- connect()
\* The effect of connect(h) on the vector; `same` is the emit() call whose
\* own thread performs the push_back (0 when none does).
DoConnect(h, same) ==
  /\ Len(connected) < MaxConnects
  /\ funcs' = PushBack(funcs, h)
  /\ IF Len(funcs) = cap
       THEN cap' = Grow(cap) /\ buf' = buf + 1
       ELSE UNCHANGED <<cap, buf>>
  /\ connected' = Append(connected, h)
  /\ em' = [e \in Emits |->
              IF InFlight(e)
                THEN [em[e] EXCEPT !.overlap = TRUE,
                                   !.raced = @ \/ (e # same)]
                ELSE em[e]]

\* connect(fn) called by a thread that is not inside emit().
Connect(h) ==
  /\ defined
  /\ FreeThread
  /\ DoConnect(h, 0)
  /\ UNCHANGED <<demo, etype, defined>>

\* connect(fn) called from the body of handler i that emit() call e is running.
HandlerConnect(e, i, h) ==
  /\ defined
  /\ em[e].tasks[i].st = "running"
  /\ DoConnect(h, IF etype = "synch" THEN e ELSE 0)
  /\ UNCHANGED <<demo, etype, defined>>

\* ----------------------------------------------------------------- emit()
\* Entry of emit(args...): futures is empty, fn = funcs.begin().
Frame(p) == [payload |-> p, pc |-> "loop",
             fn |-> Begin, fbuf |-> buf, tasks |-> <<>>,
             snap |-> funcs, fend |-> <<>>,
             overlap |-> FALSE, raced |-> FALSE]

EmitEnter(p) ==
  /\ defined
  /\ em' = Append(em, Frame(p))
  /\ UNCHANGED <<demo, etype, funcs, cap, buf, defined, connected>>

\* emit() called by a thread of the program that is not inside another call.
EmitBegin(p) ==
  /\ FreeEmitter
  /\ Len(em) < EmitBound
  /\ EmitEnter(p)

\* The call returns to its caller, normally ("ret") or by an exception.
Leave(e, how) ==
  em' = [em EXCEPT ![e].pc = how, ![e].fend = funcs]

\* The loop is left: under asynch the futures remain to be destroyed.
ExitLoop(e) ==
  IF UsesAsync(etype)
    THEN em' = [em EXCEPT ![e].pc = "join"]
    ELSE Leave(e, "ret")

\* Loop test false: fn == funcs.end().
EmitLoopEnd(e) ==
  /\ defined
  /\ em[e].pc = "loop"
  /\ ~Dangling(e)
  /\ AtEnd(em[e].fn, funcs)
  /\ ExitLoop(e)
  /\ UNCHANGED <<demo, etype, funcs, cap, buf, defined, connected>>

\* etype == synch: sig(args...) calls (*fn)(args...) on the caller's thread.
SyncCall(e) ==
  /\ defined
  /\ ~UsesAsync(etype)
  /\ em[e].pc = "loop"
  /\ ~Dangling(e)
  /\ ~AtEnd(em[e].fn, funcs)
  /\ \E h \in DerefSet(funcs, em[e].fn) :
       em' = [em EXCEPT ![e].pc = "call",
                        ![e].tasks = Append(@, Task(h, "running", e))]
  /\ defined' = (em[e].fn \in DOMAIN funcs)
  /\ UNCHANGED <<demo, etype, funcs, cap, buf, connected>>

\* etype == asynch: futures.push_back(std::async(sig, args...)); sig holds a
\* copy of the iterator fn, which the launched thread dereferences.
AsyncDispatch(e) ==
  /\ defined
  /\ UsesAsync(etype)
  /\ em[e].pc = "loop"
  /\ ~Dangling(e)
  /\ ~AtEnd(em[e].fn, funcs)
  /\ \E m \in LaunchModes :
       em' = [em EXCEPT ![e].fn = Advance(@),
                        ![e].tasks = Append(@, Task("none", m, e))]
  /\ defined' = (em[e].fn \in DOMAIN funcs)
  /\ UNCHANGED <<demo, etype, funcs, cap, buf, connected>>

\* The thread std::async started runs sig: (*fn)(args...).
TaskStart(e, i) ==
  /\ defined
  /\ em[e].tasks[i].st = "ready"
  /\ ~Dangling(e)
  /\ \E h \in DerefSet(funcs, em[e].tasks[i].it) :
       em' = [em EXCEPT ![e].tasks[i].st = "running", ![e].tasks[i].h = h]
  /\ UNCHANGED <<demo, etype, funcs, cap, buf, defined, connected>>

\* The handler returns.
HandlerReturn(e, i) ==
  /\ defined
  /\ em[e].tasks[i].st = "running"
  /\ em' = [em EXCEPT ![e].tasks[i].st = "done",
                      ![e].pc = IF UsesAsync(etype) THEN @ ELSE "loop",
                      ![e].fn = IF UsesAsync(etype) THEN @ ELSE Advance(@)]
  /\ UNCHANGED <<demo, etype, funcs, cap, buf, defined, connected>>

\* The handler throws.  synch: the exception leaves emit().  asynch: it is
\* stored in the shared state of the future, which nothing ever reads.
HandlerThrow(e, i) ==
  /\ defined
  /\ em[e].tasks[i].st = "running"
  /\ IF Propagates(etype)
       THEN em' = [em EXCEPT ![e].tasks[i].st = "failed", ![e].pc = "thrown",
                             ![e].fend = funcs]
       ELSE em' = [em EXCEPT ![e].tasks[i].st = "failed"]
  /\ UNCHANGED <<demo, etype, funcs, cap, buf, defined, connected>>

\* End of emit() under asynch: futures is destroyed, then the call returns.
EmitJoin(e) ==
  /\ defined
  /\ em[e].pc = "join"
  /\ Joined(em[e].tasks)
  /\ Leave(e, "ret")
  /\ UNCHANGED <<demo, etype, funcs, cap, buf, defined, connected>>

\* ------------------------------------------- reads through a stale iterator
\* connect() may reallocate the storage, which invalidates every iterator
\* into it, and is not synchronised with emit().  What emit() reads after
\* that is not defined by the language: any element value, any outcome of
\* the loop test, or a fault.  The first such step is taken with each of its
\* outcomes; the behaviour is not followed past it.

\* synch: (*fn)(args...) through a stale iterator calls whatever is found.
StaleCall(e, h) ==
  /\ defined
  /\ etype = "synch"
  /\ em[e].pc = "loop"
  /\ Stale(e)
  /\ em' = [em EXCEPT ![e].pc = "call",
                      ![e].tasks = Append(@, Task(h, "running", e))]
  /\ defined' = FALSE
  /\ UNCHANGED <<demo, etype, funcs, cap, buf, connected>>

\* asynch: the loop test on a stale iterator comes out true, sig is launched.
StaleDispatch(e) ==
  /\ defined
  /\ etype = "asynch"
  /\ em[e].pc = "loop"
  /\ Stale(e)
  /\ \E m \in LaunchModes :
       em' = [em EXCEPT ![e].fn = Advance(@),
                        ![e].tasks = Append(@, Task("none", m, e))]
  /\ defined' = FALSE
  /\ UNCHANGED <<demo, etype, funcs, cap, buf, connected>>

\* The loop test on a stale iterator comes out false.
StaleExit(e) ==
  /\ defined
  /\ em[e].pc = "loop"
  /\ Stale(e)
  /\ ExitLoop(e)
  /\ defined' = FALSE
  /\ UNCHANGED <<demo, etype, funcs, cap, buf, connected>>

\* asynch: the launched thread dereferences a stale copy of the iterator.
TaskStartStale(e, i, h) ==
  /\ defined
  /\ em[e].tasks[i].st = "ready"
  /\ Stale(e)
  /\ em' = [em EXCEPT ![e].tasks[i].st = "running", ![e].tasks[i].h = h]
  /\ defined' = FALSE
  /\ UNCHANGED <<demo, etype, funcs, cap, buf, connected>>

\* A stale read faults: the process ends.
Crash(e) ==
  /\ defined
  /\ Stale(e)
  /\ \/ em[e].pc = "loop"
     \/ \E i \in DOMAIN em[e].tasks : em[e].tasks[i].st = "ready"
  /\ defined' = FALSE
  /\ UNCHANGED <<demo, etype, funcs, cap, buf, em, connected>>

\* ------------------------------------------------------------------ Next
Next ==
  \/ \E h \in Handlers : Connect(h)
  \/ \E p \in Payloads : EmitBegin(p)
  \/ \E e \in Emits : EmitLoopEnd(e)
  \/ \E e \in Emits : SyncCall(e)
  \/ \E e \in Emits : AsyncDispatch(e)
  \/ \E e \in Emits : EmitJoin(e)
  \/ \E e \in Emits : \E i \in DOMAIN em[e].tasks : TaskStart(e, i)
  \/ \E e \in Emits : \E i \in DOMAIN em[e].tasks : HandlerReturn(e, i)
  \/ \E e \in Emits : \E i \in DOMAIN em[e].tasks : HandlerThrow(e, i)
  \/ \E e \in Emits : \E i \in DOMAIN em[e].tasks, h \in Handlers : HandlerConnect(e, i, h)
  \/ \E e \in Emits, h \in Handlers : StaleCall(e, h)
  \/ \E e \in Emits : StaleDispatch(e)
  \/ \E e \in Emits : StaleExit(e)
  \/ \E e \in Emits : \E i \in DOMAIN em[e].tasks, h \in Handlers : TaskStartStale(e, i, h)
  \/ \E e \in Emits : Crash(e)

Spec == Init /\ [][Next]_vars

TypeOK ==
  /\ etype \in {"synch", "asynch"}
  /\ funcs \in Seq(Handlers)
  /\ Len(funcs) <= cap
  /\ defined \in BOOLEAN

\* ============================================================== properties
IsPrefix(s, t) == Len(s) <= Len(t) /\ \A i \in DOMAIN s : s[i] = t[i]
Failed(e) == {i \in DOMAIN em[e].tasks : em[e].tasks[i].st = "failed"}
\* No connect() fell inside call e.
Quiet(e) == ~em[e].overlap

\* C1: under synch, every emit() call (several may be in progress at once)
\* calls the handlers in connection order, each one only after the one
\* before it has returned, and a call that returns has called all of them.
C1_SynchOrder ==
  etype = "synch" =>
    \A e \in Emits : Quiet(e) =>
      LET ts == em[e].tasks
          n  == Len(ts)
      IN /\ n <= Len(em[e].snap)
         /\ \A i \in 1..n : /\ ts[i].h = em[e].snap[i]
                            /\ ts[i].it = i
                            /\ i < n => ts[i].st = "done"
         /\ em[e].pc = "call" => n >= 1 /\ ts[n].st = "running"
         /\ em[e].pc = "loop" => \A i \in 1..n : ts[i].st = "done"
         /\ em[e].pc = "ret" => n = Len(em[e].snap) /\ \A i \in 1..n : ts[i].st = "done"

\* Two emit() calls are in progress at once on a synch signal with handlers
\* A, B; one of them has been through A and is inside B.
C1_Witness ==
  /\ etype = "synch"
  /\ \E e1, e2 \in Emits :
       /\ e1 # e2 /\ InFlight(e1) /\ InFlight(e2) /\ Quiet(e1) /\ Quiet(e2)
       /\ em[e1].snap = <<"A", "B">>
       /\ Len(em[e1].tasks) = 2 /\ em[e1].tasks[2].st = "running"
       /\ Len(em[e2].tasks) = 1

\* C2: an emit() call made with all connects done calls every handler
\* exactly once with the call's own argument, provided no handler fails.
C2_EveryHandlerOncePerEmit ==
  \A e \in Emits :
    (em[e].pc = "ret" /\ Quiet(e) /\ Failed(e) = {}) =>
       /\ Len(em[e].tasks) = Len(em[e].snap)
       /\ \A i \in DOMAIN em[e].tasks :
            /\ em[e].tasks[i].st = "done"
            /\ em[e].tasks[i].h = em[e].snap[i]
            /\ em[e].tasks[i].arg = em[e].payload

\* C3: under asynch, once emit() has returned, every one of the N handlers
\* of that call has finished.
C3_AsynchJoin ==
  etype = "asynch" =>
    \A e \in Emits : (em[e].pc = "ret" /\ Quiet(e)) =>
       /\ Len(em[e].tasks) = Len(em[e].snap)
       /\ \A i \in DOMAIN em[e].tasks : em[e].tasks[i].st \in {"done", "failed"}

\* The calls made of the handler that the k-th connect() added.
Calls(k) == {p \in UNION {{<<e, i>> : i \in Entered(e)} : e \in Emits} :
               em[p[1]].tasks[p[2]].it = k}
\* The emit() calls started after the k-th connect().
StartedAfter(k) == {e \in Emits : Len(em[e].snap) >= k}

\* C4: with connect() and emit() calls that do not overlap, a handler is
\* called at most once per emit() started after its connect() and, when
\* those calls have returned and no handler failed, exactly once per such
\* call.
C4_OncePerLaterEmit ==
  (\A e \in Emits : Quiet(e)) =>
    \A k \in DOMAIN connected :
      /\ Cardinality(Calls(k)) <= Cardinality(StartedAfter(k))
      /\ (\A e \in Emits : em[e].pc = "ret" /\ Failed(e) = {}) =>
            Cardinality(Calls(k)) = Cardinality(StartedAfter(k))

\* C5: the vector holds exactly the arguments of the connect() calls in
\* call order; what an emit() call found at its start is still there, in
\* place, ever after; and an emit() call leaves the vector as it found it.
C5_AppendOnly ==
  /\ funcs = connected
  /\ \A e \in Emits :
       /\ IsPrefix(em[e].snap, funcs)
       /\ (InFlight(e) /\ Quiet(e)) => funcs = em[e].snap
       /\ (Ended(e) /\ Quiet(e)) => em[e].fend = em[e].snap

\* Two connect() calls, B after A, the second one during an emit() call.
C5_Witness ==
  /\ funcs = <<"A", "B">>
  /\ \E e \in Emits : em[e].overlap /\ em[e].snap = <<"A">> /\ Entered(e) # {}

\* C6: emit() on a signal without handlers calls nothing, launches nothing,
\* leaves the vector empty and returns normally.
C6_ZeroHandlers ==
  \A e \in Emits : (em[e].snap = <<>> /\ Quiet(e)) =>
     /\ em[e].tasks = <<>>
     /\ em[e].pc \in {"loop", "join", "ret"}
     /\ InFlight(e) => funcs = <<>>
     /\ Ended(e) => em[e].fend = <<>>

\* emit() has returned from an asynch signal without handlers.
C6_Witness ==
  /\ etype = "asynch"
  /\ \E e \in Emits : em[e].pc = "ret" /\ em[e].snap = <<>> /\ Quiet(e)

\* C7: under synch, a handler that fails is the last one its emit() call
\* calls, the call ends with that failure, the handlers before it have
\* returned and the vector is as the call found it.
C7_SynchFailFast ==
  etype = "synch" =>
    \A e \in Emits :
      LET ts == em[e].tasks
          n  == Len(ts)
      IN /\ \A i \in Failed(e) : i = n /\ em[e].pc = "thrown"
         /\ em[e].pc = "thrown" =>
              /\ n >= 1 /\ ts[n].st = "failed"
              /\ \A i \in 1..(n - 1) : ts[i].st = "done"
              /\ Quiet(e) => /\ n <= Len(em[e].snap)
                             /\ \A i \in 1..n : ts[i].h = em[e].snap[i]
                             /\ em[e].fend = em[e].snap

\* The second of two handlers has failed: A has run, the call has ended.
C7_Witness ==
  /\ etype = "synch"
  /\ \E e \in Emits :
       /\ em[e].pc = "thrown" /\ Quiet(e) /\ em[e].snap = <<"A", "B">>
       /\ Len(em[e].tasks) = 2 /\ em[e].tasks[1].st = "done"

\* C8: under asynch, whether or not a handler fails, the loop launches sig
\* for every handler, and the call does not end before every thread it
\* launched has finished.
C8_AsynchFailureIsolated ==
  etype = "asynch" =>
    \A e \in Emits : Quiet(e) =>
      /\ em[e].pc \in {"loop", "join", "ret"}
      /\ em[e].pc \in {"join", "ret"} => Len(em[e].tasks) = Len(em[e].snap)
      /\ em[e].pc = "ret" =>
           \A i \in DOMAIN em[e].tasks : em[e].tasks[i].st \in {"done", "failed", "deferred"}
      /\ \A i \in Entered(e) : em[e].tasks[i].h = em[e].snap[i]

\* The call has returned: one handler failed, the other ran to completion.
C8_Witness ==
  /\ etype = "asynch"
  /\ \E e \in Emits :
       /\ Quiet(e) /\ em[e].pc = "ret" /\ Len(em[e].tasks) = 2
       /\ em[e].tasks[1].st = "failed" /\ em[e].tasks[2].st = "done"

\* C9: under asynch, an emit() call in which a handler failed does not
\* return normally.
C9_AsynchFailureResignaled ==
  etype = "asynch" =>
    \A e \in Emits : Failed(e) # {} => em[e].pc # "ret"

\* C10: an emit() call calls exactly the handlers that were connected when
\* it started, whatever connect() calls fall inside it: each call it makes
\* is of a handler of that list, and when it returns without a failure it
\* has gone through the whole list and no further.
C10_ConnectDuringEmit ==
  \A e \in Emits :
    /\ \A i \in Entered(e) : /\ em[e].tasks[i].it \in DOMAIN em[e].snap
                             /\ em[e].tasks[i].h = em[e].snap[em[e].tasks[i].it]
    /\ (em[e].pc = "ret" /\ Failed(e) = {}) => Len(em[e].tasks) = Len(em[e].snap)

\* C12: under synch, for as long as a handler has not returned it is the
\* last handler its emit() call has called, and the call is still inside
\* it: no later handler is started and the call does not end.
C12_SynchStall ==
  etype = "synch" =>
    \A e \in Emits : \A i \in DOMAIN em[e].tasks :
      em[e].tasks[i].st = "running" =>
        /\ i = Len(em[e].tasks)
        /\ em[e].pc = "call"
        /\ em[e].fn = em[e].tasks[i].it

\* The first of two handlers is running; B has not been called.
C12_Witness ==
  /\ etype = "synch"
  /\ \E e \in Emits :
       /\ Quiet(e) /\ em[e].snap = <<"A", "B">>
       /\ Len(em[e].tasks) = 1 /\ em[e].tasks[1].st = "running"

\* C13: under asynch, nothing a handler of the call is doing holds up the
\* others: while handlers remain the loop can launch the next one, every
\* launched thread can enter its handler, and every handler that is running
\* can be the next one to return.
C13_AsynchConcurrent ==
  (etype = "asynch" /\ defined) =>
    \A e \in Emits : Quiet(e) =>
      /\ (em[e].pc = "loop" /\ em[e].fn \in DOMAIN funcs) => ENABLED AsyncDispatch(e)
      /\ \A i \in DOMAIN em[e].tasks :
           /\ em[e].tasks[i].st = "ready" => ENABLED TaskStart(e, i)
           /\ em[e].tasks[i].st = "running" => ENABLED HandlerReturn(e, i)

\* Both handlers of one emit() call are running at the same time.
C13_Witness ==
  /\ etype = "asynch"
  /\ \E e \in Emits :
       /\ Quiet(e) /\ Len(em[e].snap) = 2 /\ Len(em[e].tasks) = 2
       /\ \A i \in DOMAIN em[e].tasks : em[e].tasks[i].st = "running"

\* The positions of the list fs that hold the callback h.
Positions(fs, h) == {k \in DOMAIN fs : fs[k] = h}

\* C16: connect() adds the callback once per call, also when it is there
\* already, and an emit() call that returns without a failure has called
\* it once for each of those positions, at that position.
C16_NoDeduplication ==
  /\ \A h \in Handlers :
       Cardinality(Positions(funcs, h)) = Cardinality(Positions(connected, h))
  /\ \A e \in Emits : (em[e].pc = "ret" /\ Quiet(e) /\ Failed(e) = {}) =>
       \A h \in Handlers :
         {i \in Entered(e) : em[e].tasks[i].h = h} = Positions(em[e].snap, h)

\* ================================================= a handler that blocks
\* One asynch signal whose handlers are all connected before emit() is
\* called; the callback B never returns, every other callback returns or
\* throws after finitely many steps of its thread.
Blocking == {"B"}

InitLive == Init /\ etype = "asynch"

ConnectFirst(h) == em = <<>> /\ Connect(h)

\* The steps of the thread that runs handler i of call e.
LiveStart(e, i) ==
  /\ e \in Emits /\ i \in DOMAIN em[e].tasks
  /\ TaskStart(e, i)
LiveFinish(e, i) ==
  /\ e \in Emits /\ i \in DOMAIN em[e].tasks
  /\ em[e].tasks[i].h \notin Blocking
  /\ HandlerReturn(e, i) \/ HandlerThrow(e, i)
\* The steps of the thread that called emit().
LiveEmit(e) ==
  /\ e \in Emits
  /\ AsyncDispatch(e) \/ EmitLoopEnd(e) \/ EmitJoin(e)

NextLive ==
  \/ \E h \in Handlers : ConnectFirst(h)
  \/ \E p \in Payloads : EmitBegin(p)
  \/ \E e \in 1..MaxAsynchEmits : LiveEmit(e)
  \/ \E e \in 1..MaxAsynchEmits, i \in 1..MaxConnects : LiveStart(e, i)
  \/ \E e \in 1..MaxAsynchEmits, i \in 1..MaxConnects : LiveFinish(e, i)

\* Every thread that can take a step eventually takes one.
FairLive ==
  /\ \A e \in 1..MaxAsynchEmits : WF_vars(LiveEmit(e))
  /\ \A e \in 1..MaxAsynchEmits, i \in 1..MaxConnects :
       WF_vars(LiveStart(e, i)) /\ WF_vars(LiveFinish(e, i))

SpecLive == InitLive /\ [][NextLive]_vars /\ FairLive

\* Handler i of call e exists and is not the blocking callback.
Other(e, i) == e \in Emits /\ i \in DOMAIN em[e].snap /\ em[e].snap[i] \notin Blocking
Completed(e, i) ==
  /\ e \in Emits /\ i \in DOMAIN em[e].tasks
  /\ em[e].tasks[i].st \in {"done", "failed"}
Blocked(e) == \E i \in DOMAIN em[e].tasks :
                 em[e].tasks[i].st = "running" /\ em[e].tasks[i].h \in Blocking

\* C11: under asynch with fair scheduling, every handler of an emit() call
\* other than one that blocks is eventually started and completes, and the
\* call does not return while a handler of it is blocked.
C11_AsynchOthersComplete ==
  /\ \A e \in 1..MaxAsynchEmits, i \in 1..MaxConnects : Other(e, i) ~> Completed(e, i)
  /\ [](\A e \in Emits : Blocked(e) => em[e].pc # "ret")

\* ============================================ one caller, calls in a row
\* A single thread connects handlers and calls emit(); it makes a call only
\* after its previous call has returned or thrown (server::run, lines
\* 166-170), so the calls are numbered in the order they were made.
MaxSerialEmits == 2
MaxSerialConnects == 1

SerialConnect(h) ==
  /\ \A e \in Emits : Ended(e)
  /\ Len(connected) < MaxSerialConnects
  /\ Connect(h)

SerialEmit(p) ==
  /\ \A e \in Emits : Ended(e)
  /\ Len(em) < MaxSerialEmits
  /\ EmitEnter(p)

NextSerial ==
  \/ \E h \in Handlers : SerialConnect(h)
  \/ \E p \in Payloads : SerialEmit(p)
  \/ \E e \in Emits : EmitLoopEnd(e)
  \/ \E e \in Emits : SyncCall(e)
  \/ \E e \in Emits : AsyncDispatch(e)
  \/ \E e \in Emits : \E i \in DOMAIN em[e].tasks : TaskStart(e, i)
  \/ \E e \in Emits : \E i \in DOMAIN em[e].tasks : HandlerReturn(e, i)
  \/ \E e \in Emits : \E i \in DOMAIN em[e].tasks : HandlerThrow(e, i)
  \/ \E e \in Emits : EmitJoin(e)

SpecSerial == Init /\ [][NextSerial]_vars

\* Handler invocations of call e that were launched and have not completed.
Pending(e) == {i \in DOMAIN em[e].tasks : em[e].tasks[i].st \in {"ready", "running"}}

\* C14: when one caller makes its emit() calls one after another, under
\* either policy no handler invocation of an earlier call is still to start
\* or still running once a later call exists, so every invocation of call k
\* has completed before any invocation of call k+1 starts.
C14_SerializedEmitsDoNotInterleave ==
  \A e1 \in Emits, e2 \in Emits : e1 < e2 => Pending(e1) = {}

C14_Witness ==
  /\ etype = "asynch" /\ Len(em) = 2
  /\ em[1].pc = "ret" /\ em[1].tasks # <<>>
  /\ \A i \in DOMAIN em[1].tasks : em[1].tasks[i].st = "done"
  /\ \E i \in DOMAIN em[2].tasks : em[2].tasks[i].st = "running"

\* ================================================ emit() inside a handler
\* One thread and one synch signal; the callback A calls emit() on the
\* signal it is connected to, unconditionally, and returns when that call
\* has returned.  em is the call stack of the thread: em[1] is the outermost
\* emit() call, em[Len(em)] the innermost one.
Reentrant == {"A"}
MaxDepth == 3

InitNested == Init /\ etype = "synch"

Innermost(e) == e = Len(em)

\* What emit() does with a call made while depth calls are already on the
\* stack: it has no check, every call goes into the loop.
EntryPcGuarded(depth) == IF depth > 0 THEN "ret" ELSE "loop"
EntryPc(depth) == "loop"

OuterEmit(p) == em = <<>> /\ EmitEnter(p)

NestedCall(e) == Innermost(e) /\ SyncCall(e)

NestedLoopEnd(e) == Innermost(e) /\ EmitLoopEnd(e)

PlainReturn(e, i) ==
  /\ Innermost(e)
  /\ em[e].tasks[i].h \notin Reentrant
  /\ HandlerReturn(e, i)

PlainThrow(e, i) ==
  /\ Innermost(e)
  /\ em[e].tasks[i].h \notin Reentrant
  /\ HandlerThrow(e, i)

\* The callback A, called by call e, calls emit(p).
HandlerEmit(e, i, p) ==
  /\ defined
  /\ Innermost(e)
  /\ Len(em) < MaxDepth
  /\ em[e].tasks[i].st = "running"
  /\ em[e].tasks[i].h \in Reentrant
  /\ em' = Append([em EXCEPT ![e].tasks[i].st = "nested"],
                  [Frame(p) EXCEPT !.pc = EntryPc(Len(em))])
  /\ UNCHANGED <<demo, etype, funcs, cap, buf, defined, connected>>

\* The innermost call has ended and its frame is popped: an exception goes
\* on through the callback and through the call that called it, a normal
\* return lets the callback return.
NestedResume(e, i) ==
  /\ defined
  /\ e = Len(em) - 1
  /\ em[e].tasks[i].st = "nested"
  /\ Ended(e + 1)
  /\ em' = SubSeq(IF em[e + 1].pc = "thrown"
                    THEN [em EXCEPT ![e].tasks[i].st = "failed",
                                    ![e].pc = "thrown", ![e].fend = funcs]
                    ELSE [em EXCEPT ![e].tasks[i].st = "done",
                                    ![e].pc = "loop", ![e].fn = Advance(@)],
                  1, e)
  /\ UNCHANGED <<demo, etype, funcs, cap, buf, defined, connected>>

NextNested ==
  \/ \E h \in Handlers : ConnectFirst(h)
  \/ \E p \in Payloads : OuterEmit(p)
  \/ \E e \in Emits : NestedCall(e)
  \/ \E e \in Emits : NestedLoopEnd(e)
  \/ \E e \in Emits : \E i \in DOMAIN em[e].tasks : PlainReturn(e, i)
  \/ \E e \in Emits : \E i \in DOMAIN em[e].tasks : PlainThrow(e, i)
  \/ \E e \in Emits : \E i \in DOMAIN em[e].tasks : \E p \in Payloads : HandlerEmit(e, i, p)
  \/ \E e \in Emits : \E i \in DOMAIN em[e].tasks : NestedResume(e, i)

SpecNested == InitNested /\ [][NextNested]_vars

HasReentrant(fs) == \E k \in DOMAIN fs : fs[k] \in Reentrant

\* C15: when a handler of a synch signal unconditionally calls emit() on
\* that signal, no emit() call that has this handler in its list ever
\* returns; every call below the innermost one is inside that handler,
\* which is inside the next call; a nested call that reaches the handler
\* calls it, and the handler's own emit() is never refused, at any depth.
C15_ReentrantEmitUnguarded ==
  \A e \in Emits :
    /\ HasReentrant(em[e].snap) => em[e].pc # "ret"
    /\ e < Len(em) =>
         /\ em[e].pc = "call"
         /\ em[e].tasks[Len(em[e].tasks)].st = "nested"
         /\ em[e].tasks[Len(em[e].tasks)].h \in Reentrant
    /\ (Innermost(e) /\ em[e].pc = "loop" /\ em[e].fn \in DOMAIN funcs) =>
         ENABLED NestedCall(e)
    /\ \A i \in DOMAIN em[e].tasks :
         (em[e].tasks[i].st = "running" /\ em[e].tasks[i].h \in Reentrant
            /\ Len(em) < MaxDepth) =>
           \A p \in Payloads : ENABLED HandlerEmit(e, i, p)

C15_Witness ==
  /\ Len(em) = MaxDepth
  /\ \A e \in Emits :
       /\ em[e].snap = <<"B", "A">>
       /\ Len(em[e].tasks) = 2
       /\ em[e].tasks[1].st = "done"
       /\ em[e].tasks[2].h = "A"

\* ====================================================== the demo program
\* server::run() of src/slots_signals.cpp with NumVms vms.  The thread of
\* run(), the threads that std::async starts for v->boot() and for the
\* handlers of signal_broadcast take their steps in any order: the sleeps of
\* the program delay a thread and order nothing.  signal_boot and
\* signal_data are synch signals with one handler each, so their emit() is
\* the call of that handler (vm_booted, vm_data) on the emitting thread.
sigvars == <<etype, funcs, cap, buf, em, connected>>

InitDemo == Init /\ etype = "asynch"

\* The identity of a thread as owner of mtx.
BootThread(t) == t
DataThread(i) == NumVms + i

\* mtx.lock() goes through when no thread holds mtx (0).
MtxFreeAlways(m) == TRUE
MtxFree(m) == m = 0

\* The vm on which the task made in iteration t calls boot(): the lambda
\* holds a copy of the iterator ([v]), not the loop variable itself.
BootTargetByRef(t, v) == v
BootTarget(t, v) == t

\* Lines 139-163: one iteration connects the slots of *v and launches
\* async([v](){ v->boot(); }) with the policy the implementation selects.
RunLaunch(m) ==
  /\ defined
  /\ run.pc = "loop" /\ run.v \in Vms
  /\ boot' = [boot EXCEPT ![run.v].pc = m]
  /\ run' = [run EXCEPT !.v = @ + 1]
  /\ UNCHANGED <<vms, bcast, srv, sigvars, defined>>

\* Lines 166 and 170: signal_broadcast.emit(...) begins.
RunEmit ==
  /\ defined
  /\ \/ run.pc = "loop" /\ run.v = NumVms + 1 /\ run' = [pc |-> "emit", v |-> 1, n |-> 1]
     \/ /\ run.pc = "slept" /\ run.n < Broadcasts
        /\ run' = [pc |-> "emit", v |-> 1, n |-> run.n + 1]
  /\ bcast' = [i \in Vms |-> "none"]
  /\ UNCHANGED <<boot, vms, srv, sigvars, defined>>

\* The loop of emit(): std::async for the handler [v](string s){v->data_in(s);}.
RunDispatch(m) ==
  /\ defined
  /\ run.pc = "emit" /\ run.v \in Vms
  /\ bcast' = [bcast EXCEPT ![run.v] = m]
  /\ run' = [run EXCEPT !.v = @ + 1]
  /\ UNCHANGED <<boot, vms, srv, sigvars, defined>>

\* emit() returns when its futures are destroyed; run() sleeps (168, 172).
RunJoin ==
  /\ defined
  /\ run.pc = "emit" /\ run.v = NumVms + 1
  /\ \A i \in Vms : bcast[i] \in {"done", "deferred"}
  /\ run' = [run EXCEPT !.pc = "slept"]
  /\ UNCHANGED <<boot, vms, bcast, srv, sigvars, defined>>

\* Lines 175-176: v->kill() sets booted = false.
RunKill ==
  /\ defined
  /\ \/ run.pc = "slept" /\ run.n = Broadcasts /\ run' = [run EXCEPT !.pc = "kill", !.v = 1]
        /\ UNCHANGED vms
     \/ /\ run.pc = "kill" /\ run.v \in Vms
        /\ vms' = [vms EXCEPT ![run.v].booted = FALSE]
        /\ run' = [run EXCEPT !.v = @ + 1]
  /\ UNCHANGED <<boot, bcast, srv, sigvars, defined>>

\* Line 177: futures of run() is destroyed, which waits for every boot()
\* that runs on a thread; then run() returns.
RunReturn ==
  /\ defined
  /\ run.pc = "kill" /\ run.v = NumVms + 1
  /\ \A t \in Vms : boot[t].pc \in {"finished", "deferred"}
  /\ run' = [run EXCEPT !.pc = "returned"]
  /\ UNCHANGED <<boot, vms, bcast, srv, sigvars, defined>>

\* ------------------------------------------------------------ vm::boot()
\* Line 56: boot() is entered on the vm the lambda points at and
\* assert(!booted) is evaluated; a failed assertion aborts.
BootEnter(t) ==
  /\ defined
  /\ boot[t].pc = "ready"
  /\ LET i == BootTarget(t, run.v) IN
       IF i \in Vms
         THEN /\ vms' = [vms EXCEPT ![i].entries = @ + 1]
              /\ boot' = [boot EXCEPT ![t].this = i,
                            ![t].pc = IF vms[i].booted THEN "abort" ELSE "emit_boot"]
              /\ UNCHANGED defined
         ELSE /\ defined' = FALSE
              /\ UNCHANGED <<vms, boot>>
  /\ UNCHANGED <<run, bcast, srv, sigvars>>

\* Line 62 -> 118-119: signal_boot.emit(id) calls vm_booted(id): mtx.lock(),
\* then booted++ reads the counter.
BootedLock(t) ==
  /\ defined
  /\ boot[t].pc = "emit_boot"
  /\ MtxFree(srv.mtx)
  /\ srv' = [srv EXCEPT !.mtx = BootThread(t)]
  /\ boot' = [boot EXCEPT ![t].pc = "store", ![t].reg = srv.booted]
  /\ UNCHANGED <<run, vms, bcast, sigvars, defined>>

\* Lines 119-123: booted++ writes the counter; cout; mtx.unlock().
BootedStore(t) ==
  /\ defined
  /\ boot[t].pc = "store"
  /\ srv' = [booted |-> boot[t].reg + 1, mtx |-> 0]
  /\ boot' = [boot EXCEPT ![t].pc = "set", ![t].reg = 0]
  /\ UNCHANGED <<run, vms, bcast, sigvars, defined>>

\* Line 63: booted = true.
BootSet(t) ==
  /\ defined
  /\ boot[t].pc = "set"
  /\ vms' = [vms EXCEPT ![boot[t].this].booted = TRUE]
  /\ boot' = [boot EXCEPT ![t].pc = "while"]
  /\ UNCHANGED <<run, bcast, srv, sigvars, defined>>

\* Line 67: while(booted).
BootWhile(t) ==
  /\ defined
  /\ boot[t].pc = "while"
  /\ boot' = [boot EXCEPT ![t].pc = IF vms[boot[t].this].booted THEN "work" ELSE "finished"]
  /\ UNCHANGED <<run, vms, bcast, srv, sigvars, defined>>

\* Lines 69-75: sleep, then a task is taken from tasks when there is one.
BootWork(t) ==
  /\ defined
  /\ boot[t].pc = "work"
  /\ vms' = [vms EXCEPT ![boot[t].this].tasks = IF @ > 0 THEN @ - 1 ELSE @]
  /\ boot' = [boot EXCEPT ![t].pc = "data"]
  /\ UNCHANGED <<run, bcast, srv, sigvars, defined>>

\* Line 76 -> 128: signal_data.emit(data) calls vm_data(data): mtx.lock().
DataLock(t) ==
  /\ defined
  /\ boot[t].pc = "data"
  /\ MtxFree(srv.mtx)
  /\ srv' = [srv EXCEPT !.mtx = BootThread(t)]
  /\ boot' = [boot EXCEPT ![t].pc = "data_cs"]
  /\ UNCHANGED <<run, vms, bcast, sigvars, defined>>

\* Lines 129-130: cout; mtx.unlock(); back to the loop condition.
DataUnlock(t) ==
  /\ defined
  /\ boot[t].pc = "data_cs"
  /\ srv' = [srv EXCEPT !.mtx = 0]
  /\ boot' = [boot EXCEPT ![t].pc = "while"]
  /\ UNCHANGED <<run, vms, bcast, sigvars, defined>>

\* --------------------------------------------------------- vm::data_in()
\* Line 87: tasks.push_back(s), on the thread of the broadcast handler.
DataInPush(i) ==
  /\ defined
  /\ bcast[i] = "ready"
  /\ vms' = [vms EXCEPT ![i].tasks = @ + 1]
  /\ bcast' = [bcast EXCEPT ![i] = "lock"]
  /\ UNCHANGED <<run, boot, srv, sigvars, defined>>

\* Line 92 -> 128: signal_data.emit(...) calls vm_data: mtx.lock().
DataInLock(i) ==
  /\ defined
  /\ bcast[i] = "lock"
  /\ MtxFree(srv.mtx)
  /\ srv' = [srv EXCEPT !.mtx = DataThread(i)]
  /\ bcast' = [bcast EXCEPT ![i] = "cs"]
  /\ UNCHANGED <<run, boot, vms, sigvars, defined>>

\* Lines 129-130: cout; mtx.unlock(); data_in returns.
DataInUnlock(i) ==
  /\ defined
  /\ bcast[i] = "cs"
  /\ srv' = [srv EXCEPT !.mtx = 0]
  /\ bcast' = [bcast EXCEPT ![i] = "done"]
  /\ UNCHANGED <<run, boot, vms, sigvars, defined>>

\* tasks is an unsynchronised std::vector: push_back of data_in (87) at the
\* same time as size()/back()/pop_back() of boot() (71-73) is a data race.
TasksRace(i) ==
  /\ defined
  /\ bcast[i] = "ready"
  /\ \E t \in Vms : boot[t].pc = "work" /\ boot[t].this = i
  /\ defined' = FALSE
  /\ UNCHANGED <<demo, sigvars>>

NextDemo ==
  \/ \E m \in LaunchModes : RunLaunch(m)
  \/ RunEmit
  \/ \E m \in LaunchModes : RunDispatch(m)
  \/ RunJoin
  \/ RunKill
  \/ RunReturn
  \/ \E t \in Vms : BootEnter(t)
  \/ \E t \in Vms : BootedLock(t)
  \/ \E t \in Vms : BootedStore(t)
  \/ \E t \in Vms : BootSet(t)
  \/ \E t \in Vms : BootWhile(t)
  \/ \E t \in Vms : BootWork(t)
  \/ \E t \in Vms : DataLock(t)
  \/ \E t \in Vms : DataUnlock(t)
  \/ \E i \in Vms : DataInPush(i)
  \/ \E i \in Vms : DataInLock(i)
  \/ \E i \in Vms : DataInUnlock(i)
  \/ \E i \in Vms : TasksRace(i)

SpecDemo == InitDemo /\ [][NextDemo]_vars

\* C17: in every execution of server::run, under every interleaving of the
\* boot threads and the broadcast handlers, boot() is entered at most once
\* on each vm and never finds booted true at its entry (Assertion 1).
C17_AssertionOneHolds ==
  /\ \A t \in Vms : boot[t].pc # "abort"
  /\ \A i \in Vms : vms[i].entries <= 1

C17_Witness ==
  /\ \A i \in Vms : vms[i].entries = 1 /\ vms[i].booted
  /\ run.pc = "emit" /\ run.n = Broadcasts
  /\ \E i \in Vms : bcast[i] = "cs"

\* The threads that are inside the body of vm_booted or of vm_data.
InSlot ==
  {BootThread(t) : t \in {u \in Vms : boot[u].pc \in {"store", "data_cs"}}}
    \cup {DataThread(i) : i \in {j \in Vms : bcast[j] = "cs"}}
\* The boot threads whose signal_boot.emit() has returned.
BootSignalled == {t \in Vms : boot[t].pc \in {"set", "while", "work", "data", "data_cs", "finished"}}

\* C18: at most one thread at a time is inside the body of vm_booted or
\* vm_data, and the server's booted counter equals the number of vms whose
\* signal_boot emission has returned (NumVms once all have booted).
C18_SlotsSelfSynchronized ==
  /\ Cardinality(InSlot) <= 1
  /\ srv.booted = Cardinality(BootSignalled)

C18_Witness ==
  /\ srv.booted = NumVms
  /\ Cardinality(BootSignalled) = NumVms
  /\ \E i \in Vms : bcast[i] = "cs"
  /\ \E t \in Vms : boot[t].pc = "data"

\* ------------------------------------------------- the demo, run fairly
\* The steps of the thread of run(), of a boot thread and of a broadcast
\* handler thread that do not wait for mtx.
RunStep ==
  \/ \E m \in LaunchModes : RunLaunch(m)
  \/ RunEmit
  \/ \E m \in LaunchModes : RunDispatch(m)
  \/ RunJoin
  \/ RunKill
  \/ RunReturn
BootStep(t) ==
  \/ BootEnter(t) \/ BootedStore(t) \/ BootSet(t)
  \/ BootWhile(t) \/ BootWork(t) \/ DataUnlock(t)
DataInStep(i) == DataInPush(i) \/ DataInUnlock(i)

\* Every thread that can take a step eventually takes one, and a thread
\* that waits in mtx.lock() gets the mutex if it is free again and again.
FairDemo ==
  /\ WF_vars(RunStep)
  /\ \A t \in Vms : WF_vars(BootStep(t)) /\ SF_vars(BootedLock(t) \/ DataLock(t))
  /\ \A i \in Vms : WF_vars(DataInStep(i)) /\ SF_vars(DataInLock(i))

SpecDemoFair == InitDemo /\ [][NextDemo]_vars /\ FairDemo

AllKilled == run.pc = "kill" /\ run.v = NumVms + 1

\* C19: server::run eventually returns, and once kill() has been called on
\* every vm, no boot() stays in its work loop: each one that is in the loop
\* or still gets there leaves it.
C19_RunTerminates ==
  /\ <>(run.pc = "returned")
  /\ \A t \in Vms : (AllKilled /\ boot[t].pc # "deferred") ~> (boot[t].pc = "finished")
====
